---- MODULE Spec2Model ----
(***************************************************************************)
(* CityTwin (src/app1.py): the object registry kept in the session state,  *)
(* the evaluation engine evaluate_location and the perimeter analyzer      *)
(* analyze_perimeter.                                                      *)
(*                                                                         *)
(* Encodings.                                                              *)
(*  - Python None is the integer -1 (ids are >= 1, distances are >= 0).    *)
(*  - Category names are ASCII tags for the Russian strings of PALETTE:    *)
(*      "housing"  = "Жилой комплекс"      "school" = "Школа"              *)
(*      "park"     = "Парк"                "sport"  = "Спорткомплекс"      *)
(*      "industry" = "Промышленный объект" "bridge" = "Мост"               *)
(*    "other" is a category that is not in the catalog.                    *)
(*  - A coordinate is the pair of a latitude and a longitude, written in   *)
(*    microdegrees; each pair stands for one pair of doubles (listed at    *)
(*    haversine_km).  Distances are in millimetres (1e-6 km).              *)
(*  - Parameter values are in hundredths (0.25 is 25, 1500 is 150000).     *)
(*  - The statements of the evaluation are ASCII tags, each introduced     *)
(*    next to the rule that appends it.                                    *)
(***************************************************************************)
EXTENDS Integers, Sequences, FiniteSets, TLC

VARIABLES
    objects,      \* st.session_state.objects: the ordered registry
    selected_id,  \* st.session_state.selected_id
    ids_issued,   \* how many identifiers new_id has handed out so far
    last_call,    \* the registry function called last and what it returned
    args,         \* the inputs handed to the evaluation / perimeter functions
    out           \* what the evaluation / perimeter function called last returned

vars == <<objects, selected_id, ids_issued, last_call, args, out>>

\* ------------------------------------------------------------------ bounds
\* identifiers handed out in one session (caps the number of add_object calls)
MaxIds == 3
\* length of the object lists handed to the pure functions
MaxObjs == 3

\* ------------------------------------------------------- catalog, constants
None == -1

\* PALETTE: the fixed catalog of six categories
PALETTE == {"housing", "school", "park", "sport", "industry", "bridge"}

\* DEFAULT_PARAMS.get(obj_type, {}): a dict is a set of <<key, value>> pairs
DEFAULT_PARAMS(obj_type) ==
    CASE obj_type = "housing"  -> {<<"residents", 150000>>}
      [] obj_type = "school"   -> {<<"capacity", 80000>>}
      [] obj_type = "park"     -> {<<"green_factor", 25>>}
      [] obj_type = "sport"    -> {<<"visitors_per_day", 50000>>}
      [] obj_type = "industry" -> {<<"emission", 12000>>, <<"filters_eff", 0>>}
      [] obj_type = "bridge"   -> {<<"capacity_bonus", 20000>>}
      [] OTHER                 -> {}

\* DEFAULT_CENTER = (49.9483, 82.6285)
DEFAULT_CENTER == <<49948300, 82628500>>

\* ANALYSIS_RADIUS_KM = 1.5
ANALYSIS_RADIUS_KM == 1500000

\* The coordinates of the model.  PointA, PointB and PointC are the doubles
\*   PointA = (49.937677707160326, 82.625539)
\*   PointB = (49.96137573998616,  82.633655)
\*   PointC = (49.96414420194337,  82.641732)
\* for which haversine_km from DEFAULT_CENTER returns exactly 1.2, 1.5 and 2.0.
PointA == <<49937678, 82625539>>
PointB == <<49961376, 82633655>>
PointC == <<49964144, 82641732>>

Points == {DEFAULT_CENTER, PointA, PointB, PointC}

\* the categories a caller passes: the catalog and one name outside of it
ObjTypes == PALETTE \cup {"other"}

\* the categories of the objects in the lists handed to the pure functions
ListTypes == {"housing", "school", "park", "industry", "bridge"}

\* the clicks of the registry session, and the candidate points of the
\* pure-function runs
Clicks == {DEFAULT_CENTER, PointA}

\* the radii handed to analyze_perimeter
Radii == {ANALYSIS_RADIUS_KM, 2000000}

\* --------------------------------------------------------------- data model
\* CityObject(id, obj_type, lat, lon, params)
CityObject(id, obj_type, lat, lon, params) ==
    [id |-> id, obj_type |-> obj_type, lat |-> lat, lon |-> lon, params |-> params]

\* new_id(): a fresh identifier (uuid4): the next one never issued before
new_id == ids_issued + 1

\* haversine_km, tabulated: the value the function returns for each pair of
\* the model's coordinates, in millimetres (all of them are symmetric, and no
\* value other than the exact ones lies within a millimetre of a threshold)
HaversineTable(p, q) ==
    CASE p = q -> 0
      [] {p, q} = {DEFAULT_CENTER, PointA} -> 1200000
      [] {p, q} = {DEFAULT_CENTER, PointB} -> 1500000
      [] {p, q} = {DEFAULT_CENTER, PointC} -> 2000000
      [] {p, q} = {PointA, PointB} -> 2698327
      [] {p, q} = {PointA, PointC} -> 3162781
      [] {p, q} = {PointB, PointC} -> 654643

haversine_km(lat1, lon1, lat2, lon2) == HaversineTable(<<lat1, lon1>>, <<lat2, lon2>>)

Min(S) == CHOOSE x \in S : \A y \in S : x <= y

\* dict.get(key, 0) on a dict held as a set of pairs
Get(params, key) ==
    IF \E kv \in params : kv[1] = key
    THEN (CHOOSE kv \in params : kv[1] = key)[2]
    ELSE 0

\* ------------------------------------------------------- evaluation engine
\* plus, minus = [], []
NoStatements == [plus |-> <<>>, minus |-> <<>>]

\* plus.append(s) and minus.append(s)
PlusAppend(r, s) == [r EXCEPT !.plus = Append(@, s)]
MinusAppend(r, s) == [r EXCEPT !.minus = Append(@, s)]

\* nearest(t): the least distance from (lat, lon) to an object of category t
\* in objs, None when objs holds no object of that category
nearest(t, lat, lon, objs) ==
    LET candidates == SelectSeq(objs, LAMBDA o : o.obj_type = t)
    IN  IF candidates = <<>>
        THEN None
        ELSE Min({haversine_km(lat, lon, candidates[i].lat, candidates[i].lon) :
                    i \in DOMAIN candidates})

\* the housing branch as it would be with strict comparisons
housing_rules_strict(near_home, near_school, near_park, near_ind) ==
    LET r1 == IF near_school = None
              THEN MinusAppend(NoStatements, "no_schools")
              ELSE IF near_school < 1500000
                   THEN PlusAppend(NoStatements, "school_near")
                   ELSE MinusAppend(NoStatements, "school_far")
        r2 == IF near_park # None /\ near_park < 1200000
              THEN PlusAppend(r1, "park_near")
              ELSE MinusAppend(r1, "no_park")
    IN  IF near_ind # None /\ near_ind < 2000000
        THEN MinusAppend(r2, "industry_close")
        ELSE PlusAppend(r2, "industry_far")

\* obj_type == "Жилой комплекс"
\*   no_schools      "Поблизости нет школ — возможна перегрузка инфраструктуры."
\*   school_near     "Школа относительно рядом — лучше доступность."
\*   school_far      "Школа далеко — возрастёт нагрузка на транспорт."
\*   park_near       "Рядом парк — выше комфорт и качество среды."
\*   no_park         "Нет парка рядом — стоит добавить зелёную зону."
\*   industry_close  "Слишком близко к промзоне — риск хуже по экологии."
\*   industry_far    "Достаточно далеко от промзоны — лучше по экологии."
housing_rules(near_home, near_school, near_park, near_ind) ==
    LET r1 == IF near_school = None
              THEN MinusAppend(NoStatements, "no_schools")
              ELSE IF near_school <= 1500000
                   THEN PlusAppend(NoStatements, "school_near")
                   ELSE MinusAppend(NoStatements, "school_far")
        r2 == IF near_park # None /\ near_park <= 1200000
              THEN PlusAppend(r1, "park_near")
              ELSE MinusAppend(r1, "no_park")
    IN  IF near_ind # None /\ near_ind <= 2000000
        THEN MinusAppend(r2, "industry_close")
        ELSE PlusAppend(r2, "industry_far")

\* obj_type == "Школа"
\*   no_housing             "Нет жилья рядом — школа может быть “в пустоте”."
\*   housing_near           "Рядом жильё — школа будет востребована и удобна."
\*   housing_far            "Жильё далеко — детям придётся ездить, вырастет трафик."
\*   school_industry_close  "Близко к промзоне — нежелательно для школьной среды."
\*   school_industry_far    "Подальше от промзоны — лучше для здоровья/комфорта."
school_rules(near_home, near_school, near_park, near_ind) ==
    LET r1 == IF near_home = None
              THEN MinusAppend(NoStatements, "no_housing")
              ELSE IF near_home <= 1500000
                   THEN PlusAppend(NoStatements, "housing_near")
                   ELSE MinusAppend(NoStatements, "housing_far")
    IN  IF near_ind # None /\ near_ind <= 2500000
        THEN MinusAppend(r1, "school_industry_close")
        ELSE PlusAppend(r1, "school_industry_far")

\* obj_type == "Парк"
\*   park_housing_near      "Рядом жильё — парк даст максимальную пользу жителям."
\*   park_generic           "Парк улучшит район, но рядом с жильём эффект сильнее."
\*   park_offsets_industry  "Рядом промзона — парк частично компенсирует эффект загрязнения."
\*   park_noise             "Но шум/выбросы всё равно могут ощущаться."
\*   park_clean             "Чистая зона — парк усилит комфорт и привлекательность."
park_rules(near_home, near_school, near_park, near_ind) ==
    LET r1 == IF near_home # None /\ near_home <= 1500000
              THEN PlusAppend(NoStatements, "park_housing_near")
              ELSE PlusAppend(NoStatements, "park_generic")
    IN  IF near_ind # None /\ near_ind <= 2000000
        THEN MinusAppend(PlusAppend(r1, "park_offsets_industry"), "park_noise")
        ELSE PlusAppend(r1, "park_clean")

\* the industry branch as it would be without its two fixed statements
industry_rules_without_fixed(near_home, near_school, near_park, near_ind) ==
    LET r1 == IF near_home # None /\ near_home <= 3000000
              THEN MinusAppend(NoStatements, "ind_housing_close")
              ELSE PlusAppend(NoStatements, "ind_housing_far")
    IN  IF near_school # None /\ near_school <= 3500000
        THEN MinusAppend(r1, "ind_school_close")
        ELSE PlusAppend(r1, "ind_school_far")

\* obj_type == "Промышленный объект"
\*   ind_housing_close  "Близко к жилью — риски по экологии и жалобы жителей."
\*   ind_housing_far    "Далеко от жилья — меньше конфликтов по экологии."
\*   ind_school_close   "Близко к школе — нежелательное соседство."
\*   ind_school_far     "Далеко от школ — лучше для социальной среды."
\*   jobs               "Плюс: создаёт рабочие места и экономическую активность."
\*   air                "Минус: ухудшает качество воздуха вокруг (если нет фильтров)."
industry_rules(near_home, near_school, near_park, near_ind) ==
    LET r1 == IF near_home # None /\ near_home <= 3000000
              THEN MinusAppend(NoStatements, "ind_housing_close")
              ELSE PlusAppend(NoStatements, "ind_housing_far")
        r2 == IF near_school # None /\ near_school <= 3500000
              THEN MinusAppend(r1, "ind_school_close")
              ELSE PlusAppend(r1, "ind_school_far")
    IN  MinusAppend(PlusAppend(r2, "jobs"), "air")

\* obj_type == "Спорткомплекс"
\*   sport_housing_near  "Рядом жильё — удобный доступ для посетителей."
\*   sport_housing_far   "Далеко от жилья — посещаемость может быть ниже."
\*   sport_park_near     "Рядом парк — хорошая связка для спорта и отдыха."
\*   sport_add_park      "Можно дополнить рядом парком для более комфортной зоны."
sport_rules(near_home, near_school, near_park, near_ind) ==
    LET r1 == IF near_home # None /\ near_home <= 2000000
              THEN PlusAppend(NoStatements, "sport_housing_near")
              ELSE MinusAppend(NoStatements, "sport_housing_far")
    IN  IF near_park # None /\ near_park <= 1500000
        THEN PlusAppend(r1, "sport_park_near")
        ELSE PlusAppend(r1, "sport_add_park")

\* obj_type == "Мост"
\*   bridge_connect  "Мост обычно улучшает связанность и снижает объезды."
\*   bridge_weaker   "Если нет разрыва маршрутов, эффект может быть слабее (в MVP это упрощено)."
bridge_rules(near_home, near_school, near_park, near_ind) ==
    MinusAppend(PlusAppend(NoStatements, "bridge_connect"), "bridge_weaker")

\* the if / elif chain over obj_type; no branch for a name outside the catalog
category_rules(obj_type, near_home, near_school, near_park, near_ind) ==
    CASE obj_type = "housing"  -> housing_rules(near_home, near_school, near_park, near_ind)
      [] obj_type = "school"   -> school_rules(near_home, near_school, near_park, near_ind)
      [] obj_type = "park"     -> park_rules(near_home, near_school, near_park, near_ind)
      [] obj_type = "industry" -> industry_rules(near_home, near_school, near_park, near_ind)
      [] obj_type = "sport"    -> sport_rules(near_home, near_school, near_park, near_ind)
      [] obj_type = "bridge"   -> bridge_rules(near_home, near_school, near_park, near_ind)
      [] OTHER                 -> NoStatements

\* the end of evaluate_location as it would be without the fallback
fallback_missing(r) == r

\* if not plus: plus.append(...)
\*   fallback  "Расположение выглядит допустимым для MVP-модели."
fallback(r) == IF r.plus = <<>> THEN PlusAppend(r, "fallback") ELSE r

\* evaluate_location as it would be without the branch for an empty list
evaluate_location_without_first_point(obj_type, lat, lon, objs) ==
    LET near_home   == nearest("housing", lat, lon, objs)
        near_school == nearest("school", lat, lon, objs)
        near_park   == nearest("park", lat, lon, objs)
        near_ind    == nearest("industry", lat, lon, objs)
    IN  fallback(category_rules(obj_type, near_home, near_school, near_park, near_ind))

\* evaluate_location(obj_type, lat, lon, objs) -> (plus, minus)
\*   first_point  "Это первая точка — удобно начать моделирование с базы района."
evaluate_location(obj_type, lat, lon, objs) ==
    LET near_home   == nearest("housing", lat, lon, objs)
        near_school == nearest("school", lat, lon, objs)
        near_park   == nearest("park", lat, lon, objs)
        near_ind    == nearest("industry", lat, lon, objs)
    IN  IF objs = <<>>
        THEN PlusAppend(NoStatements, "first_point")
        ELSE fallback(category_rules(obj_type, near_home, near_school, near_park, near_ind))

\* ------------------------------------------------------ perimeter analyzer
\* the test a strict comparison would make
in_radius_strict(d, radius_km) == d < radius_km

\* if d <= radius_km
in_radius(d, radius_km) == d <= radius_km

\* for o in objs: d = haversine_km(...); if d <= radius_km: around.append((o, d))
RECURSIVE within_radius(_, _, _, _)
within_radius(lat, lon, objs, radius_km) ==
    IF objs = <<>>
    THEN <<>>
    ELSE LET o == Head(objs)
             d == haversine_km(lat, lon, o.lat, o.lon)
             rest == within_radius(lat, lon, Tail(objs), radius_km)
         IN  IF in_radius(d, radius_km) THEN <<[o |-> o, d |-> d]>> \o rest ELSE rest

\* sorted(around, key=lambda x: x[1]): a stable sort, by insertion
RECURSIVE insert_by_distance(_, _)
insert_by_distance(sorted, x) ==
    IF sorted = <<>>
    THEN <<x>>
    ELSE IF Head(sorted).d <= x.d
         THEN <<Head(sorted)>> \o insert_by_distance(Tail(sorted), x)
         ELSE <<x>> \o sorted

RECURSIVE sorted_by_distance(_)
sorted_by_distance(around) ==
    IF around = <<>>
    THEN <<>>
    ELSE insert_by_distance(sorted_by_distance(SubSeq(around, 1, Len(around) - 1)),
                            around[Len(around)])

\* counts[o.obj_type] = counts.get(o.obj_type, 0) + 1, over the pairs of around
count_types(around) ==
    [t \in {around[i].o.obj_type : i \in DOMAIN around} |->
        Cardinality({i \in DOMAIN around : around[i].o.obj_type = t})]

\* the term each of the three sums adds for one object:
\*   float(o.params.get("residents", 0)), float(o.params.get("capacity", 0)),
\*   float(o.params.get("emission", 0)) * (1.0 - float(o.params.get("filters_eff", 0)))
sum_term(o, what) ==
    CASE what = "residents" -> Get(o.params, "residents")
      [] what = "capacity"  -> Get(o.params, "capacity")
      [] what = "emission"  ->
            (Get(o.params, "emission") * (100 - Get(o.params, "filters_eff"))) \div 100

\* sum(term for o, _d in around if o.obj_type == t)
RECURSIVE sum_over(_, _, _)
sum_over(around, t, what) ==
    IF around = <<>>
    THEN 0
    ELSE (IF Head(around).o.obj_type = t THEN sum_term(Head(around).o, what) ELSE 0)
         + sum_over(Tail(around), t, what)

\* analyze_perimeter(lat, lon, objs, radius_km) -> Dict
\* (sums in hundredths: school_need = residents * 0.25 is residents * 25 / 100)
analyze_perimeter(lat, lon, objs, radius_km) ==
    LET around == within_radius(lat, lon, objs, radius_km)
        counts == count_types(around)
        residents == sum_over(around, "housing", "residents")
        school_capacity == sum_over(around, "school", "capacity")
        industry_emission == sum_over(around, "industry", "emission")
        parks == IF "park" \in DOMAIN counts THEN counts["park"] ELSE 0
        school_need == (residents * 25) \div 100
        school_gap == school_need - school_capacity
    IN  [around |-> sorted_by_distance(around),
         counts |-> counts,
         residents |-> residents,
         school_capacity |-> school_capacity,
         school_gap |-> school_gap,
         industry_emission |-> industry_emission,
         parks |-> parks,
         radius_km |-> radius_km]

\* ---------------------------------------------------------------- registry
NoArgs == [lat |-> None, lon |-> None, objs |-> <<>>]
NoOutput == [fn |-> "none"]

\* what a registry function returned, as the text of the Python value
Returned(fn, ret) == [fn |-> fn, ret |-> ret]

\* the results shown are locals of one script run: a registry call ends in
\* st.rerun(), after which they are computed again
Rerun == /\ out' = NoOutput
         /\ UNCHANGED args

\* init_state(): the session state of a fresh session
init_state ==
    /\ objects = <<>>
    /\ selected_id = None
    /\ ids_issued = 0
    /\ last_call = Returned("init_state", "None")

\* get_selected_obj(): the first object whose id is selected_id, as a
\* sequence of one object; <<>> is Python's None
get_selected_obj ==
    LET hits == {i \in DOMAIN objects : objects[i].id = selected_id}
    IN  IF hits = {} THEN <<>> ELSE <<objects[Min(hits)]>>

\* add_object as it would be without its last line (the selection is not set)
add_object_keeps_selection(obj_type, lat, lon) ==
    /\ ids_issued < MaxIds
    /\ LET o == CityObject(new_id, obj_type, lat, lon, DEFAULT_PARAMS(obj_type))
       IN  objects' = Append(objects, o)
    /\ ids_issued' = ids_issued + 1
    /\ last_call' = Returned("add_object", "None")
    /\ UNCHANGED selected_id
    /\ Rerun

\* add_object(obj_type, lat, lon)
add_object(obj_type, lat, lon) ==
    /\ ids_issued < MaxIds
    /\ LET o == CityObject(new_id, obj_type, lat, lon, DEFAULT_PARAMS(obj_type))
       IN  /\ objects' = Append(objects, o)
           /\ selected_id' = o.id
    /\ ids_issued' = ids_issued + 1
    /\ last_call' = Returned("add_object", "None")
    /\ Rerun

\* one call of delete_selected as it would be if it selected objects[-1]
\* after the removal
delete_selected_result_selects_last(objs, sid) ==
    IF sid = None
    THEN [objects |-> objs, selected_id |-> sid, ret |-> "False"]
    ELSE LET before == Len(objs)
             remaining == SelectSeq(objs, LAMBDA o : o.id # sid)
             after == Len(remaining)
         IN  [objects |-> remaining,
              selected_id |-> IF remaining # <<>>
                              THEN remaining[Len(remaining)].id ELSE None,
              ret |-> IF after < before THEN "True" ELSE "False"]

\* delete_selected() as a function of the session state it reads: the
\* objects and the selection it leaves, and the value it returns
delete_selected_result(objs, sid) ==
    IF sid = None
    THEN [objects |-> objs, selected_id |-> sid, ret |-> "False"]
    ELSE LET before == Len(objs)
             remaining == SelectSeq(objs, LAMBDA o : o.id # sid)
             after == Len(remaining)
         IN  [objects |-> remaining,
              selected_id |-> IF remaining # <<>> THEN remaining[1].id ELSE None,
              ret |-> IF after < before THEN "True" ELSE "False"]

\* delete_selected as it would be if it did not select again after the removal
delete_selected_keeps_selection ==
    LET sid == selected_id
    IN  IF sid = None
        THEN /\ last_call' = Returned("delete_selected", "False")
             /\ UNCHANGED <<objects, selected_id, ids_issued>>
             /\ Rerun
        ELSE LET before == Len(objects)
                 remaining == SelectSeq(objects, LAMBDA o : o.id # sid)
                 after == Len(remaining)
             IN  /\ objects' = remaining
                 /\ last_call' = Returned("delete_selected",
                                          IF after < before THEN "True" ELSE "False")
                 /\ UNCHANGED <<selected_id, ids_issued>>
                 /\ Rerun

\* delete_selected as it would be if it selected objects[-1] after the removal
delete_selected_selects_last ==
    LET sid == selected_id
    IN  IF sid = None
        THEN /\ last_call' = Returned("delete_selected", "False")
             /\ UNCHANGED <<objects, selected_id, ids_issued>>
             /\ Rerun
        ELSE LET before == Len(objects)
                 remaining == SelectSeq(objects, LAMBDA o : o.id # sid)
                 after == Len(remaining)
             IN  /\ objects' = remaining
                 /\ selected_id' = IF remaining # <<>>
                                   THEN remaining[Len(remaining)].id ELSE None
                 /\ last_call' = Returned("delete_selected",
                                          IF after < before THEN "True" ELSE "False")
                 /\ UNCHANGED ids_issued
                 /\ Rerun

\* delete_selected as it would be if its early return gave True
delete_selected_returns_true ==
    LET sid == selected_id
    IN  IF sid = None
        THEN /\ last_call' = Returned("delete_selected", "True")
             /\ UNCHANGED <<objects, selected_id, ids_issued>>
             /\ Rerun
        ELSE LET before == Len(objects)
                 remaining == SelectSeq(objects, LAMBDA o : o.id # sid)
                 after == Len(remaining)
             IN  /\ objects' = remaining
                 /\ selected_id' = IF remaining # <<>> THEN remaining[1].id ELSE None
                 /\ last_call' = Returned("delete_selected",
                                          IF after < before THEN "True" ELSE "False")
                 /\ UNCHANGED ids_issued
                 /\ Rerun

\* delete_selected()
delete_selected ==
    LET sid == selected_id
    IN  IF sid = None
        THEN /\ last_call' = Returned("delete_selected", "False")
             /\ UNCHANGED <<objects, selected_id, ids_issued>>
             /\ Rerun
        ELSE LET before == Len(objects)
                 remaining == SelectSeq(objects, LAMBDA o : o.id # sid)
                 after == Len(remaining)
             IN  /\ objects' = remaining
                 /\ selected_id' = IF remaining # <<>> THEN remaining[1].id ELSE None
                 /\ last_call' = Returned("delete_selected",
                                          IF after < before THEN "True" ELSE "False")
                 /\ UNCHANGED ids_issued
                 /\ Rerun

\* move_selected as it would be if it moved objects[0] whatever is selected
move_selected_moves_first(lat, lon) ==
    LET sid == selected_id
        hits == {i \in DOMAIN objects : objects[i].id = sid}
    IN  IF sid = None \/ hits = {}
        THEN /\ last_call' = Returned("move_selected", "False")
             /\ UNCHANGED <<objects, selected_id, ids_issued>>
             /\ Rerun
        ELSE /\ objects' = [objects EXCEPT ![1] = [@ EXCEPT !.lat = lat, !.lon = lon]]
             /\ last_call' = Returned("move_selected", "True")
             /\ UNCHANGED <<selected_id, ids_issued>>
             /\ Rerun

\* move_selected(lat, lon)
move_selected(lat, lon) ==
    LET sid == selected_id
        hits == {i \in DOMAIN objects : objects[i].id = sid}
    IN  IF sid = None \/ hits = {}
        THEN /\ last_call' = Returned("move_selected", "False")
             /\ UNCHANGED <<objects, selected_id, ids_issued>>
             /\ Rerun
        ELSE /\ objects' = [objects EXCEPT ![Min(hits)] =
                                [@ EXCEPT !.lat = lat, !.lon = lon]]
             /\ last_call' = Returned("move_selected", "True")
             /\ UNCHANGED <<selected_id, ids_issued>>
             /\ Rerun

\* the selectbox over the objects on the map: the entry chosen becomes the
\* selection (chosen is a position of the list, 1-based here)
select_object(chosen) ==
    /\ objects # <<>>
    /\ chosen \in DOMAIN objects
    /\ selected_id' = objects[chosen].id
    /\ last_call' = Returned("selectbox", "None")
    /\ UNCHANGED <<objects, ids_issued>>
    /\ Rerun

\* the evaluation shown for the selected object: the object itself is left
\* out of the list of the others
evaluate_selected ==
    /\ get_selected_obj # <<>>
    /\ LET sel == get_selected_obj[1]
           others == SelectSeq(objects, LAMBDA o : o.id # sel.id)
           pm == evaluate_location(sel.obj_type, sel.lat, sel.lon, others)
       IN  out' = [fn |-> "evaluate_location", obj_type |-> sel.obj_type,
                   lat |-> sel.lat, lon |-> sel.lon, objs |-> others,
                   plus |-> pm.plus, minus |-> pm.minus]
    /\ UNCHANGED <<objects, selected_id, ids_issued, last_call, args>>

Init ==
    /\ init_state
    /\ args = NoArgs
    /\ out = NoOutput

Next ==
    \/ \E obj_type \in ObjTypes, p \in Clicks : add_object(obj_type, p[1], p[2])
    \/ delete_selected
    \/ \E p \in Clicks : move_selected(p[1], p[2])
    \/ \E chosen \in 1..MaxIds : select_object(chosen)
    \/ evaluate_selected

Spec == Init /\ [][Next]_vars

\* ------------------------------------------- the pure functions on their own
\* the list of the objects f describes: object i has id i, the category and
\* the point f[i] gives, and the parameters add_object gives that category
ObjectList(f) ==
    [i \in DOMAIN f |-> CityObject(i, f[i][1], f[i][2][1], f[i][2][2],
                                   DEFAULT_PARAMS(f[i][1]))]

\* a candidate point and a list of at most MaxObjs other objects, each of a
\* category of ListTypes at a point of Points; each run makes one call
InitEval ==
    /\ init_state
    /\ \E c \in Clicks, n \in 0..MaxObjs :
          \E f \in [1..n -> ListTypes \X Points] :
              args = [lat |-> c[1], lon |-> c[2], objs |-> ObjectList(f)]
    /\ out = NoOutput

\* p, m = evaluate_location(t, lat, lon, objs)
call_evaluate_location(obj_type) ==
    /\ out = NoOutput
    /\ LET pm == evaluate_location(obj_type, args.lat, args.lon, args.objs)
       IN  out' = [fn |-> "evaluate_location", obj_type |-> obj_type,
                   lat |-> args.lat, lon |-> args.lon, objs |-> args.objs,
                   plus |-> pm.plus, minus |-> pm.minus]
    /\ UNCHANGED <<objects, selected_id, ids_issued, last_call, args>>

\* result = analyze_perimeter(base_lat, base_lon, objs, radius_km)
call_analyze_perimeter(radius_km) ==
    /\ out = NoOutput
    /\ out' = [fn |-> "analyze_perimeter", lat |-> args.lat, lon |-> args.lon,
               objs |-> args.objs,
               result |-> analyze_perimeter(args.lat, args.lon, args.objs, radius_km)]
    /\ UNCHANGED <<objects, selected_id, ids_issued, last_call, args>>

NextEval ==
    \/ \E obj_type \in ObjTypes : call_evaluate_location(obj_type)
    \/ \E radius_km \in Radii : call_analyze_perimeter(radius_km)

SpecEval == InitEval /\ [][NextEval]_vars

\* ------------------------------------------------------------------ claims
Range(seq) == {seq[i] : i \in DOMAIN seq}

\* seq without its k-th element
RemoveAt(seq, k) == SubSeq(seq, 1, k - 1) \o SubSeq(seq, k + 1, Len(seq))

\* C1: in every reachable state the selected identifier is unset or is the
\* id of an object that is in the registry.
C1_SelectionReferencesObject ==
    selected_id = None \/ \E i \in DOMAIN objects : objects[i].id = selected_id

\* C1 witness: a deletion has just re-selected among two remaining objects.
C1_Witness ==
    /\ last_call = Returned("delete_selected", "True")
    /\ Len(objects) = 2
    /\ selected_id # None

\* C2: delete_selected with an object selected removes exactly that object,
\* keeps the others in their order, selects the first remaining object (or
\* nothing when none remains) and returns True.
C2_DeleteRemovesSelected ==
    [][(selected_id # None /\ delete_selected) =>
          /\ \E k \in DOMAIN objects :
                /\ objects[k].id = selected_id
                /\ objects' = RemoveAt(objects, k)
          /\ Len(objects') = Len(objects) - 1
          /\ selected_id' = IF objects' = <<>> THEN None ELSE objects'[1].id
          /\ last_call' = Returned("delete_selected", "True")]_vars

\* C2 witness: of three objects added, the middle one was selected and has
\* just been deleted; the first of the two that remain is selected.
C2_Witness ==
    /\ last_call = Returned("delete_selected", "True")
    /\ ids_issued = 3
    /\ Len(objects) = 2
    /\ objects[1].id = 1
    /\ objects[2].id = 3
    /\ selected_id = 1

\* C3: add_object keeps the prior sequence as a prefix, appends one object
\* with the given category and coordinates and that category's default
\* parameters, and selects it: the selected object is the last element.
C3_AddAppendsAndSelects ==
    [][\A obj_type \in ObjTypes, p \in Clicks :
          add_object(obj_type, p[1], p[2]) =>
              /\ Len(objects') = Len(objects) + 1
              /\ SubSeq(objects', 1, Len(objects)) = objects
              /\ LET o == objects'[Len(objects')]
                 IN  /\ o.obj_type = obj_type
                     /\ o.lat = p[1]
                     /\ o.lon = p[2]
                     /\ o.params = DEFAULT_PARAMS(obj_type)
                     /\ selected_id' = o.id
              /\ {i \in DOMAIN objects' : objects'[i].id = selected_id'}
                    = {Len(objects')}]_vars

\* C3 witness: an object was added to a registry that had seen a deletion,
\* and it is the last element and the selected one.
C3_Witness ==
    /\ last_call = Returned("add_object", "None")
    /\ ids_issued = 3
    /\ Len(objects) = 2
    /\ selected_id = objects[2].id

\* C4: with nothing selected, delete_selected and move_selected return False
\* and leave the object sequence and the selection as they were.
C4_NoSelectionNoChange ==
    [][(selected_id = None
        /\ (delete_selected \/ \E p \in Clicks : move_selected(p[1], p[2]))) =>
          /\ last_call'.ret = "False"
          /\ objects' = objects
          /\ selected_id' = selected_id]_vars

\* C4 witness: objects were added and deleted again, and a call made with
\* nothing selected has returned False.
C4_Witness ==
    /\ last_call.fn \in {"delete_selected", "move_selected"}
    /\ last_call.ret = "False"
    /\ ids_issued >= 1
    /\ selected_id = None

\* C5: move_selected with an object selected returns True and changes only
\* the latitude and longitude of the selected object.
C5_MoveChangesOnlyCoordinates ==
    [][\A p \in Clicks :
          (selected_id # None /\ move_selected(p[1], p[2])) =>
              /\ last_call' = Returned("move_selected", "True")
              /\ Len(objects') = Len(objects)
              /\ selected_id' = selected_id
              /\ \A i \in DOMAIN objects :
                    IF objects[i].id = selected_id
                    THEN /\ objects'[i].id = objects[i].id
                         /\ objects'[i].obj_type = objects[i].obj_type
                         /\ objects'[i].params = objects[i].params
                    ELSE objects'[i] = objects[i]]_vars

\* C5 witness: the second of three objects is selected and has just been
\* moved to a point where the first one is not.
C5_Witness ==
    /\ last_call = Returned("move_selected", "True")
    /\ Len(objects) = 3
    /\ selected_id = objects[2].id
    /\ <<objects[2].lat, objects[2].lon>> # <<objects[1].lat, objects[1].lon>>

\* the distance from the candidate point of the call to the i-th object passed
DistanceTo(i) == haversine_km(out.lat, out.lon, out.objs[i].lat, out.objs[i].lon)

\* an object of category t lies within thr of the candidate point
CategoryWithin(t, thr) ==
    \E i \in DOMAIN out.objs : out.objs[i].obj_type = t /\ DistanceTo(i) <= thr

CategoryPresent(t) == \E i \in DOMAIN out.objs : out.objs[i].obj_type = t

\* C6 as claimed: for category industry the output holds the jobs statement
\* and the air-quality statement for every list of other objects, the empty
\* one included.
C6_IndustryFixedStatementsAlways ==
    (out.fn = "evaluate_location" /\ out.obj_type = "industry") =>
        "jobs" \in Range(out.plus) /\ "air" \in Range(out.minus)

\* C6 amended: for category industry and a list of other objects that is not
\* empty, the output holds the jobs statement among the supporting and the
\* air-quality statement among the concerning statements.
C6_IndustryFixedStatements ==
    (out.fn = "evaluate_location" /\ out.obj_type = "industry" /\ out.objs # <<>>) =>
        "jobs" \in Range(out.plus) /\ "air" \in Range(out.minus)

\* C6 witness: an industrial candidate near a dwelling and near a school; the
\* jobs statement is the only supporting one.
C6_Witness ==
    /\ out.fn = "evaluate_location"
    /\ out.obj_type = "industry"
    /\ Len(out.objs) = 2
    /\ out.plus = <<"jobs">>
    /\ out.minus = <<"ind_housing_close", "ind_school_close", "air">>

\* C7: evaluate_location with an empty list of other objects returns the
\* first-point statement alone and no concern, for every category and every
\* coordinate; this is the evaluation of the selected object when it is the
\* only object of the registry, since it is left out of its own neighbours.
C7_FirstPointOnly ==
    out.fn = "evaluate_location" =>
        /\ Len(objects) = 1 => out.objs = <<>>
        /\ out.objs = <<>> => out.plus = <<"first_point">> /\ out.minus = <<>>

\* C7 witness: an object of a category outside the catalog was added to the
\* empty registry and has been evaluated.
C7_Witness ==
    /\ out.fn = "evaluate_location"
    /\ last_call = Returned("add_object", "None")
    /\ Len(objects) = 1
    /\ out.obj_type = "other"
    /\ out.objs = <<>>
    /\ out.plus = <<"first_point">>

\* the statements the three housing rules give, in rule order
HousingSupports ==
    (IF CategoryWithin("school", 1500000) THEN <<"school_near">> ELSE <<>>)
    \o (IF CategoryWithin("park", 1200000) THEN <<"park_near">> ELSE <<>>)
    \o (IF CategoryWithin("industry", 2000000) THEN <<>> ELSE <<"industry_far">>)

HousingConcerns ==
    (IF CategoryWithin("school", 1500000) THEN <<>>
     ELSE IF CategoryPresent("school") THEN <<"school_far">> ELSE <<"no_schools">>)
    \o (IF CategoryWithin("park", 1200000) THEN <<>> ELSE <<"no_park">>)
    \o (IF CategoryWithin("industry", 2000000) THEN <<"industry_close">> ELSE <<>>)

\* C8 as claimed: for category housing and a list of other objects that is
\* not empty the output is exactly three statements, one per rule in rule
\* order, each decided by the least distance to the rule's category against
\* its inclusive threshold (school 1.5, park 1.2, industry 2.0).
C8_HousingExactlyThree ==
    (out.fn = "evaluate_location" /\ out.obj_type = "housing" /\ out.objs # <<>>) =>
        /\ Len(out.plus) + Len(out.minus) = 3
        /\ out.plus = HousingSupports
        /\ out.minus = HousingConcerns

\* C8 amended: the three rules give exactly three statements as claimed, and
\* when all three are concerns the generic fallback statement is added as
\* the only supporting statement (four statements in all).
C8_HousingRules ==
    (out.fn = "evaluate_location" /\ out.obj_type = "housing" /\ out.objs # <<>>) =>
        /\ Len(HousingSupports) + Len(HousingConcerns) = 3
        /\ out.minus = HousingConcerns
        /\ out.plus = IF HousingSupports = <<>> THEN <<"fallback">> ELSE HousingSupports
        /\ Len(out.plus) + Len(out.minus) = IF HousingSupports = <<>> THEN 4 ELSE 3

\* C8 witness: a housing candidate with a school at exactly 1.5 km, a park
\* at exactly 1.2 km and an industrial object at exactly 2.0 km.
C8_Witness ==
    /\ out.fn = "evaluate_location"
    /\ out.obj_type = "housing"
    /\ \E i \in DOMAIN out.objs : out.objs[i].obj_type = "school" /\ DistanceTo(i) = 1500000
    /\ \E i \in DOMAIN out.objs : out.objs[i].obj_type = "park" /\ DistanceTo(i) = 1200000
    /\ \E i \in DOMAIN out.objs : out.objs[i].obj_type = "industry" /\ DistanceTo(i) = 2000000
    /\ out.plus = <<"school_near", "park_near">>
    /\ out.minus = <<"industry_close">>

\* C9 as claimed: for a category outside the catalog the supporting list is
\* the fallback statement alone and the concerning list is empty, whatever
\* the other objects are.
C9_UnknownCategoryFallbackAlways ==
    (out.fn = "evaluate_location" /\ out.obj_type \notin PALETTE) =>
        out.plus = <<"fallback">> /\ out.minus = <<>>

\* C9 amended: for a category outside the catalog and a list of other
\* objects that is not empty, the supporting list is the fallback statement
\* alone and the concerning list is empty.
C9_UnknownCategoryFallback ==
    (out.fn = "evaluate_location" /\ out.obj_type \notin PALETTE /\ out.objs # <<>>) =>
        out.plus = <<"fallback">> /\ out.minus = <<>>

\* C9 witness: a candidate of a category outside the catalog, evaluated next
\* to a dwelling and an industrial object at its own point.
C9_Witness ==
    /\ out.fn = "evaluate_location"
    /\ out.obj_type = "other"
    /\ CategoryWithin("housing", 0)
    /\ CategoryWithin("industry", 0)
    /\ out.plus = <<"fallback">>

\* the sum of the values of a function with a finite domain
RECURSIVE SumOf(_)
SumOf(f) ==
    IF DOMAIN f = {}
    THEN 0
    ELSE LET k == CHOOSE k \in DOMAIN f : TRUE
         IN  f[k] + SumOf([j \in DOMAIN f \ {k} |-> f[j]])

\* C10: 'around' holds exactly the objects at a distance d <= radius from
\* the centre (d = 0 and d = radius included, d > radius excluded), each with
\* its distance, in non-decreasing order of distance; the counts per category
\* sum to the length of 'around', and 'parks' is the count for category park.
C10_PerimeterAround ==
    out.fn = "analyze_perimeter" =>
        LET around == out.result.around
            counts == out.result.counts
            inside == {i \in DOMAIN out.objs : DistanceTo(i) <= out.result.radius_km}
        IN  /\ Len(around) = Cardinality(inside)
            /\ \A i \in inside :
                  \E k \in DOMAIN around :
                      around[k] = [o |-> out.objs[i], d |-> DistanceTo(i)]
            /\ \A k \in DOMAIN around :
                  \E i \in inside :
                      around[k] = [o |-> out.objs[i], d |-> DistanceTo(i)]
            /\ \A k \in DOMAIN around : k > 1 => around[k - 1].d <= around[k].d
            /\ SumOf(counts) = Len(around)
            /\ out.result.parks =
                  Cardinality({k \in DOMAIN around : around[k].o.obj_type = "park"})
            /\ "park" \in DOMAIN counts => out.result.parks = counts["park"]

\* C10 witness: of three objects passed, the one at the radius comes first in
\* the list, the one at the centre second, the third lies beyond the radius;
\* 'around' holds the one at distance 0 and then the one at the radius.
C10_Witness ==
    /\ out.fn = "analyze_perimeter"
    /\ out.result.radius_km = ANALYSIS_RADIUS_KM
    /\ Len(out.objs) = 3
    /\ DistanceTo(1) = ANALYSIS_RADIUS_KM
    /\ DistanceTo(2) = 0
    /\ DistanceTo(3) > ANALYSIS_RADIUS_KM
    /\ out.objs[1].obj_type = "park"
    /\ Len(out.result.around) = 2
    /\ out.result.around[1].o = out.objs[2]
    /\ out.result.around[2].o = out.objs[1]
    /\ out.result.parks = 1

\* the ids of a list of objects, in order
IdsOf(objs) == [i \in DOMAIN objs |-> objs[i].id]

\* k calls of delete_selected in a row from (objs, sid): what each call
\* leaves and returns, in the order of the calls
RECURSIVE DeleteRepeatedly(_, _, _)
DeleteRepeatedly(objs, sid, k) ==
    IF k = 0
    THEN <<>>
    ELSE LET r == delete_selected_result(objs, sid)
         IN  <<r>> \o DeleteRepeatedly(r.objects, r.selected_id, k - 1)

\* from the present state, Len(objects) calls of delete_selected in a row
\* empty the registry and no fewer do; each returns True; the first removes
\* the object selected now, every later one the object at the front
DeletesEmptyInOrder ==
    LET n == Len(objects)
    IN  \A run \in {DeleteRepeatedly(objects, selected_id, n)} :
          /\ Len(run) = n
          /\ \A i \in 1..n :
                /\ run[i].ret = "True"
                /\ (run[i].objects = <<>>) <=> (i = n)
                /\ (run[i].selected_id = None) <=> (i = n)
          /\ n > 0 =>
                /\ IdsOf(run[1].objects)
                      = IdsOf(SelectSeq(objects, LAMBDA o : o.id # selected_id))
                /\ Len(run[1].objects) = n - 1
          /\ \A i \in 2..n : run[i].objects = Tail(run[i - 1].objects)

\* C11: in every reachable state the selection is unset exactly when the
\* registry is empty; so delete_selected and move_selected return False only
\* on an empty registry, and n calls of delete_selected in a row empty a
\* registry of n objects, no fewer do, and they remove the selected object
\* first and then the others from the front of the sequence.  (The run of
\* calls is stated of the state a call of delete_selected starts in, which
\* every reachable state is: the call is possible in all of them.)
C11_SelectionUnsetIffEmpty ==
    [][/\ selected_id = None <=> objects = <<>>
       /\ selected_id' = None <=> objects' = <<>>
       /\ delete_selected =>
             /\ \A r \in {delete_selected_result(objects, selected_id)} :
                   /\ objects' = r.objects
                   /\ selected_id' = r.selected_id
                   /\ last_call'.ret = r.ret
             /\ DeletesEmptyInOrder
       /\ (last_call'.ret = "False"
           /\ (delete_selected \/ \E p \in Clicks : move_selected(p[1], p[2])))
          => objects = <<>>]_vars

\* C11 witness: three objects are in the registry and the selectbox has made
\* the middle one the selection, so three calls remove the objects in the
\* order 2, 1, 3.
C11_Witness ==
    /\ last_call = Returned("selectbox", "None")
    /\ Len(objects) = 3
    /\ selected_id = objects[2].id
    /\ \A run \in {DeleteRepeatedly(objects, selected_id, 3)} :
          /\ IdsOf(run[1].objects) = <<objects[1].id, objects[3].id>>
          /\ IdsOf(run[2].objects) = <<objects[3].id>>
          /\ run[3].objects = <<>>

====
